---------------------------- MODULE Spec2Model ----------------------------
(***************************************************************************)
(* A model of the shorts pipeline of src/processing.py and                 *)
(* src/server/main.py: the SRT serializer and parser, the highlight        *)
(* scorer, the window selector (find_highlights), the clip renderer        *)
(* (render_clips_with_captions) and the /api/process handler.              *)
(*                                                                         *)
(* Time.  Parsed transcript times, window bounds and durations are Python  *)
(* floats holding seconds; the model holds them as integers counting       *)
(* milliseconds (every value the parser produces is a whole number of      *)
(* milliseconds).  The float seconds of the transcription engine's         *)
(* segments have a finer resolution: they are integers counting 1/SubMs    *)
(* of a millisecond.  Scores are rationals, held as integers scaled by     *)
(* ScoreScale, which is chosen so that every score of the model is exact.  *)
(*                                                                         *)
(* Text.  A Python str is a sequence of one-character strings.             *)
(***************************************************************************)
EXTENDS Integers, Sequences, FiniteSets, TLC

VARIABLES
    pc,          \* position of the operation of the specification at hand
    segments,    \* transcribe_to_srt: result["segments"] of the engine
    srt_file,    \* the characters of work/transcript.srt
    parsed,      \* _parse_srt's return value
    entries,     \* find_highlights: the entries _parse_srt returned, which
                 \* the scoring loop gives their "score"
    vid_dur,     \* find_highlights: what _probe_duration returns, in ms
    target_len,  \* find_highlights: target_len, in seconds
    max_clips,   \* find_highlights: max_clips
    windows,     \* find_highlights: the candidate windows before the sort
    picked,      \* find_highlights: the windows returned
    entry,       \* scorer: an entry {start, end, text}
    keyword,     \* scorer: the keyword added to the entry's text
    where,       \* scorer: how the keyword is added, and after which index
    score0,      \* scorer: the score of the entry
    score1,      \* scorer: the score of the entry with the keyword added
    srt_exists,  \* project: whether work/transcript.srt exists
    ass_file,    \* project: clips/captions.ass, its dialogue lines
    clip_files,  \* project: the clip files of clips/, by name
    manifest_json, \* project: manifest.json
    idx,         \* render_clips_with_captions: the loop index
    manifest,    \* render_clips_with_captions: the manifest built so far
    response,    \* process_video: how the last invocation ended
    runs,        \* the number of /api/process invocations begun
    inv          \* history of the invocation at hand

srtVars == <<segments, srt_file, parsed>>
hlVars == <<entries, vid_dur, target_len, max_clips, windows, picked>>
projVars == <<srt_exists, ass_file, clip_files, manifest_json, idx, manifest,
              response, runs, inv>>
scVars == <<entry, keyword, where, score0, score1>>
vars == <<pc, segments, srt_file, parsed,
          entries, vid_dur, target_len, max_clips, windows, picked,
          entry, keyword, where, score0, score1,
          srt_exists, ass_file, clip_files, manifest_json, idx, manifest,
          response, runs, inv>>

---------------------------------------------------------------------------
(* Numbers and characters *)

MsPerSec == 1000

\* Resolution of the model's float seconds: units per millisecond.
SubMs == 4

\* Units of a segment time per second.
UnitsPerSec == MsPerSec * SubMs

Max(a, b) == IF a >= b THEN a ELSE b
Min(a, b) == IF a <= b THEN a ELSE b

NL == "\n"
CR == "\r"
SP == " "

DIGITS == <<"0", "1", "2", "3", "4", "5", "6", "7", "8", "9">>

IsDigit(c) == \E d \in 1..10 : DIGITS[d] = c

\* str.isspace of one character (the whitespace str.strip and \s remove)
IsSpace(c) == c \in {SP, NL, CR, "\t"}

DigitVal(c) == (CHOOSE d \in 1..10 : DIGITS[d] = c) - 1

\* str(n) for n >= 0
RECURSIVE ToDec(_)
ToDec(n) == IF n < 10 THEN <<DIGITS[n + 1]>>
            ELSE ToDec(n \div 10) \o <<DIGITS[(n % 10) + 1]>>

\* f"{n:0{w}d}": decimal, zero-padded to at least w characters
RECURSIVE ZeroPad(_, _)
ZeroPad(s, w) == IF Len(s) >= w THEN s ELSE ZeroPad(<<"0">> \o s, w)

FmtInt(n, w) == ZeroPad(ToDec(n), w)

\* int(s) of a string of decimal digits
RECURSIVE ParseInt(_)
ParseInt(s) == IF s = <<>> THEN 0
               ELSE 10 * ParseInt(SubSeq(s, 1, Len(s) - 1)) + DigitVal(s[Len(s)])

---------------------------------------------------------------------------
(* str methods *)

RECURSIVE LStrip(_)
LStrip(s) == IF s # <<>> /\ IsSpace(s[1]) THEN LStrip(Tail(s)) ELSE s

RECURSIVE RStrip(_)
RStrip(s) == IF s # <<>> /\ IsSpace(s[Len(s)])
             THEN RStrip(SubSeq(s, 1, Len(s) - 1)) ELSE s

\* s.strip()
Strip(s) == RStrip(LStrip(s))

\* sep.join(parts), parts a sequence of strings
RECURSIVE Join(_, _)
Join(sep, parts) ==
    IF parts = <<>> THEN <<>>
    ELSE IF Len(parts) = 1 THEN parts[1]
    ELSE parts[1] \o sep \o Join(sep, Tail(parts))

\* index of the first occurrence of character c in s at or after i, 0 if none
FindChar(s, c, i) ==
    LET hits == {j \in i..Len(s) : s[j] = c}
    IN  IF hits = {} THEN 0 ELSE CHOOSE j \in hits : \A k \in hits : j <= k

\* s.split(c) for a one-character separator
RECURSIVE SplitOn(_, _)
SplitOn(s, c) ==
    LET k == FindChar(s, c, 1)
    IN  IF k = 0 THEN <<s>>
        ELSE <<SubSeq(s, 1, k - 1)>> \o SplitOn(SubSeq(s, k + 1, Len(s)), c)

---------------------------------------------------------------------------
(* transcribe_to_srt and _sec_to_srt_time *)

\* _sec_to_srt_time taking the minutes without the "% 3600"
SecToSrtTime_MinutesUnwrapped(t) ==
    LET h  == t \div (3600 * UnitsPerSec)
        m  == t \div (60 * UnitsPerSec)
        s  == (t % (60 * UnitsPerSec)) \div UnitsPerSec
        ms == ((t - (t \div UnitsPerSec) * UnitsPerSec) * MsPerSec) \div UnitsPerSec
    IN  FmtInt(h, 2) \o <<":">> \o FmtInt(m, 2) \o <<":">> \o FmtInt(s, 2)
          \o <<",">> \o FmtInt(ms, 3)

\* _sec_to_srt_time(t), t in units of 1/SubMs ms; int() truncates
SecToSrtTime(t) ==
    LET h  == t \div (3600 * UnitsPerSec)
        m  == (t % (3600 * UnitsPerSec)) \div (60 * UnitsPerSec)
        s  == (t % (60 * UnitsPerSec)) \div UnitsPerSec
        ms == ((t - (t \div UnitsPerSec) * UnitsPerSec) * MsPerSec) \div UnitsPerSec
    IN  FmtInt(h, 2) \o <<":">> \o FmtInt(m, 2) \o <<":">> \o FmtInt(s, 2)
          \o <<",">> \o FmtInt(ms, 3)

ARROW == <<SP, "-", "-", ">", SP>>

\* f"{idx}\n{start} --> {end}\n{text}\n" of segment i (0-based in the code)
SrtBlock(n, seg) ==
    ToDec(n) \o <<NL>>
      \o SecToSrtTime(seg.start) \o ARROW \o SecToSrtTime(seg.end) \o <<NL>>
      \o Strip(seg.text) \o <<NL>>

\* the string transcribe_to_srt writes: "\n".join(lines)
SrtText(segs) == Join(<<NL>>, [i \in 1..Len(segs) |-> SrtBlock(i, segs[i])])

---------------------------------------------------------------------------
(* _parse_srt, _parse_block and _srt_time_to_sec *)

\* open(path, "r") reads with universal newlines: "\r\n" and "\r" become "\n"
UniversalNewlines(s) ==
    LET IsLfOfCrLf(i) == s[i] = NL /\ i > 1 /\ s[i - 1] = CR
        kept == SelectSeq([i \in 1..Len(s) |-> i], LAMBDA i : ~IsLfOfCrLf(i))
    IN  [k \in 1..Len(kept) |-> IF s[kept[k]] = CR THEN NL ELSE s[kept[k]]]

\* "for line in f: line = line.rstrip('\n')": the lines of the text, a last
\* line without its newline included when it is not empty
RECURSIVE FileLines(_)
FileLines(s) ==
    IF s = <<>> THEN <<>>
    ELSE LET k == FindChar(s, NL, 1)
         IN  IF k = 0 THEN <<s>>
             ELSE <<SubSeq(s, 1, k - 1)>> \o FileLines(SubSeq(s, k + 1, Len(s)))

\* the index after the longest run of digits of line that starts at i
RECURSIVE DigitsEnd(_, _)
DigitsEnd(line, i) == IF i <= Len(line) /\ IsDigit(line[i])
                      THEN DigitsEnd(line, i + 1) ELSE i

RECURSIVE SpacesEnd(_, _)
SpacesEnd(line, i) == IF i <= Len(line) /\ IsSpace(line[i])
                      THEN SpacesEnd(line, i + 1) ELSE i

At(line, i, c) == i <= Len(line) /\ line[i] = c

\* \d+:\d+:\d+,\d+ at i: the index after the match, 0 when there is none
TsEnd(line, i) ==
    LET a == DigitsEnd(line, i)
        b == DigitsEnd(line, a + 1)
        c == DigitsEnd(line, b + 1)
        d == DigitsEnd(line, c + 1)
    IN  IF /\ a > i     /\ At(line, a, ":")
           /\ b > a + 1 /\ At(line, b, ":")
           /\ c > b + 1 /\ At(line, c, ",")
           /\ d > c + 1
        THEN d ELSE 0

\* (\d+:\d+:\d+,\d+)\s+-->\s+(\d+:\d+:\d+,\d+) at i: the two groups, or <<>>
TimeLineAt(line, i) ==
    LET j == TsEnd(line, i)
        k == SpacesEnd(line, j)
        l == SpacesEnd(line, k + 3)
        n == TsEnd(line, l)
    IN  IF /\ j # 0 /\ k > j
           /\ At(line, k, "-") /\ At(line, k + 1, "-") /\ At(line, k + 2, ">")
           /\ l > k + 3 /\ n # 0
        THEN <<SubSeq(line, i, j - 1), SubSeq(line, l, n - 1)>>
        ELSE <<>>

\* re.match(r".*?(\d+:\d+:\d+,\d+)\s+-->\s+(\d+:\d+:\d+,\d+)", line): the lazy
\* prefix takes the first position at which the rest matches
RECURSIVE TimeLineFrom(_, _)
TimeLineFrom(line, i) ==
    IF i > Len(line) THEN <<>>
    ELSE IF TimeLineAt(line, i) # <<>> THEN TimeLineAt(line, i)
    ELSE TimeLineFrom(line, i + 1)

ReMatchTimeLine(line) == TimeLineFrom(line, 1)

\* _srt_time_to_sec(ts), in milliseconds
SrtTimeToSec(ts) ==
    LET hms  == SplitOn(ts, ":")
        rest == SplitOn(hms[3], ",")
    IN  (ParseInt(hms[1]) * 3600 + ParseInt(hms[2]) * 60 + ParseInt(rest[1]))
          * MsPerSec + ParseInt(rest[2])

\* _parse_block(block): <<entry>>, or <<>> for None
ParseBlock(block) ==
    IF Len(block) < 3 THEN <<>>
    ELSE LET m == ReMatchTimeLine(block[2])
         IN  IF m = <<>> THEN <<>>
             ELSE <<[start |-> SrtTimeToSec(m[1]),
                     end   |-> SrtTimeToSec(m[2]),
                     text  |-> Strip(Join(<<SP>>, SubSeq(block, 3, Len(block))))]>>

\* the loop of _parse_srt over the lines, block the lines gathered so far
RECURSIVE ParseLines(_, _)
ParseLines(lines, block) ==
    IF lines = <<>>
    THEN IF block # <<>> THEN ParseBlock(block) ELSE <<>>
    ELSE IF Strip(lines[1]) = <<>>
         THEN (IF block # <<>> THEN ParseBlock(block) ELSE <<>>)
                \o ParseLines(Tail(lines), <<>>)
         ELSE ParseLines(Tail(lines), Append(block, lines[1]))

\* _parse_srt(path) of a file holding text
ParseSrt(text) == ParseLines(FileLines(UniversalNewlines(text)), <<>>)

---------------------------------------------------------------------------
(* The highlight scorer: find_highlights, "Score sentences" *)

KEYWORDS == <<
    <<"t", "i", "p">>,
    <<"s", "e", "c", "r", "e", "t">>,
    <<"m", "i", "s", "t", "a", "k", "e">>,
    <<"c", "o", "m", "m", "o", "n">>,
    <<"b", "e", "s", "t">>,
    <<"w", "o", "r", "s", "t">>,
    <<"a", "l", "w", "a", "y", "s">>,
    <<"n", "e", "v", "e", "r">>,
    <<"h", "o", "w", " ", "t", "o">>,
    <<"h", "e", "r", "e", "'", "s">>,
    <<"w", "a", "t", "c", "h", " ", "t", "h", "i", "s">>,
    <<"l", "i", "s", "t", "e", "n">>,
    <<"i", "d", "e", "a">>,
    <<"h", "a", "c", "k">>,
    <<"s", "t", "r", "a", "t", "e", "g", "y">>,
    <<"s", "t", "o", "r", "y">>,
    <<"e", "x", "a", "m", "p", "l", "e">>,
    <<"b", "e", "c", "a", "u", "s", "e">>,
    <<"w", "h", "y">>,
    <<"m", "y", "t", "h">>,
    <<"t", "r", "u", "t", "h">> >>

\* The entry durations of the model are whole multiples of Step, at most
\* MaxSteps of them.
Step == MsPerSec \div 2

MaxSteps == 4

RECURSIVE Fact(_)
Fact(n) == IF n <= 1 THEN 1 ELSE n * Fact(n - 1)

\* Scores are held multiplied by ScoreScale: 0.1 and every words / (3 * d),
\* d a duration of the model, are whole numbers of 1/ScoreScale.
ScoreScale == 30 * Fact(MaxSteps)

\* str.lower of one character, on the letters the model's texts use
LowerChar(c) == CASE c = "T" -> "t" [] c = "I" -> "i" [] c = "P" -> "p"
                  [] OTHER -> c

Lower(s) == [i \in 1..Len(s) |-> LowerChar(s[i])]

\* kw in text
Contains(text, kw) ==
    \E i \in 1..(Len(text) - Len(kw) + 1) : SubSeq(text, i, i + Len(kw) - 1) = kw

\* len(text.split()): the number of maximal runs of non-whitespace
RECURSIVE WordCount(_)
WordCount(s) ==
    LET t == LStrip(s)
        k == CHOOSE j \in 1..(Len(t) + 1) :
                 /\ \A i \in 1..(j - 1) : ~IsSpace(t[i])
                 /\ (j = Len(t) + 1 \/ IsSpace(t[j]))
    IN  IF t = <<>> THEN 0 ELSE 1 + WordCount(SubSeq(t, k, Len(t)))

\* the keyword bonus: one point for each keyword found in the text
RECURSIVE KeywordBonus(_, _)
KeywordBonus(text, i) ==
    IF i > Len(KEYWORDS) THEN 0
    ELSE (IF Contains(text, KEYWORDS[i]) THEN ScoreScale ELSE 0)
           + KeywordBonus(text, i + 1)

\* the density term with the quotient upside down: seconds per word
Density_Inverted(text, duration) ==
    LET words == Max(1, WordCount(text))
    IN  Min((Max(MsPerSec \div 2, duration) * ScoreScale) \div (3 * words * MsPerSec),
            ScoreScale)

\* the speech density term min(wps / 3.0, 1.0), wps = words / max(0.5, duration)
Density(text, duration) ==
    LET words == Max(1, WordCount(text))
    IN  Min((words * MsPerSec * ScoreScale) \div (3 * Max(MsPerSec \div 2, duration)),
            ScoreScale)

\* the score the loop gives entry e
Score(e) ==
    LET text == Lower(e.text)
    IN  KeywordBonus(text, 1) + Density(text, e.end - e.start)

ScoreAll(es) == [i \in 1..Len(es) |-> [start |-> es[i].start, end |-> es[i].end,
                                       text |-> es[i].text, score |-> Score(es[i])]]

---------------------------------------------------------------------------
(* The window selector: find_highlights and _overlap *)

\* the sequential chop, both fallback loops: t the loop variable, ws the
\* windows appended so far, duration in ms, len in seconds
RECURSIVE Chop(_, _, _, _, _)
Chop(t, ws, duration, len, maxc) ==
    IF t < duration /\ Len(ws) < maxc
    THEN Chop(t + len * MsPerSec,
              Append(ws, [start |-> t,
                          end   |-> Min(t + len * MsPerSec, duration),
                          score |-> ScoreScale \div 10]),
              duration, len, maxc)
    ELSE ws

\* whether entry s counts towards the window [start, end]
Overlapping(s, start, end) == ~(s.end < start \/ s.start > end)

RECURSIVE WinScore(_, _, _, _)
WinScore(es, i, start, end) ==
    IF i > Len(es) THEN 0
    ELSE (IF Overlapping(es[i], start, end) THEN es[i].score ELSE 0)
           + WinScore(es, i + 1, start, end)

\* SeedBounds without the clamp to the duration
SeedBounds_NoDurationClamp(e, dur, len) ==
    LET center == (e.start + e.end) \div 2
        start0 == Max(0, center - (len * MsPerSec) \div 2)
    IN  [start |-> start0, end |-> start0 + len * MsPerSec]

\* SeedBounds moving the start back by the target length without the floor
SeedBounds_NoFloor(e, dur, len) ==
    LET center == (e.start + e.end) \div 2
        start0 == Max(0, center - (len * MsPerSec) \div 2)
        end0   == start0 + len * MsPerSec
    IN  IF end0 > dur
        THEN [start |-> dur - len * MsPerSec, end |-> dur]
        ELSE [start |-> start0, end |-> end0]

\* the bounds of the window seeded by entry e
SeedBounds(e, dur, len) ==
    LET center == (e.start + e.end) \div 2
        start0 == Max(0, center - (len * MsPerSec) \div 2)
        end0   == start0 + len * MsPerSec
    IN  IF end0 > dur
        THEN [start |-> Max(0, dur - len * MsPerSec), end |-> dur]
        ELSE [start |-> start0, end |-> end0]

\* the window appended for the scored entry es[i]
SeedWindow(es, i, dur, len) ==
    LET b == SeedBounds(es[i], dur, len)
    IN  [start |-> b.start, end |-> b.end,
         score |-> WinScore(es, 1, b.start, b.end)]

\* the seeding loop: one window for each entry whose score is at least 0.5
RECURSIVE Seeds(_, _, _, _)
Seeds(es, i, dur, len) ==
    IF i > Len(es) THEN <<>>
    ELSE (IF 2 * es[i].score < ScoreScale THEN <<>>
          ELSE <<SeedWindow(es, i, dur, len)>>)
           \o Seeds(es, i + 1, dur, len)

\* _overlap comparing with > in place of >=
Overlap_Strict(a, b) ==
    LET inter == Max(0, Min(a.end, b.end) - Max(a.start, b.start))
    IN  2 * inter > Min(a.end - a.start, b.end - b.start)

\* _overlap(a, b, frac=0.5)
Overlap(a, b) ==
    LET inter == Max(0, Min(a.end, b.end) - Max(a.start, b.start))
    IN  2 * inter >= Min(a.end - a.start, b.end - b.start)

\* InsertDesc putting w before the windows of its own score: a sort that is
\* not stable
RECURSIVE InsertDesc_Unstable(_, _)
InsertDesc_Unstable(ws, w) ==
    IF ws = <<>> THEN <<w>>
    ELSE IF ws[1].score > w.score
         THEN <<ws[1]>> \o InsertDesc_Unstable(Tail(ws), w)
    ELSE <<w>> \o ws

\* ws with w put after the last window whose score is at least w's
RECURSIVE InsertDesc(_, _)
InsertDesc(ws, w) ==
    IF ws = <<>> THEN <<w>>
    ELSE IF ws[1].score >= w.score THEN <<ws[1]>> \o InsertDesc(Tail(ws), w)
    ELSE <<w>> \o ws

\* windows.sort(key=lambda w: w.score, reverse=True): stable, descending
RECURSIVE SortDesc(_)
SortDesc(ws) ==
    IF ws = <<>> THEN <<>>
    ELSE InsertDesc(SortDesc(SubSeq(ws, 1, Len(ws) - 1)), ws[Len(ws)])

\* whether the greedy loop appends w to the windows picked so far
Accepts(pk, w) == \A j \in 1..Len(pk) : ~Overlap(w, pk[j])

\* the greedy loop over the sorted windows
RECURSIVE Greedy(_, _, _)
Greedy(ws, pk, maxc) ==
    IF ws = <<>> \/ Len(pk) >= maxc THEN pk
    ELSE Greedy(Tail(ws), IF Accepts(pk, ws[1]) THEN Append(pk, ws[1]) ELSE pk, maxc)

\* the candidate windows find_highlights sorts, of the scored entries: the
\* seeds, or the chop when nothing is seeded
Candidates(scored, dur, len, maxc) ==
    LET seeds == Seeds(scored, 1, dur, len)
    IN  IF seeds = <<>> THEN Chop(0, <<>>, dur, len, maxc) ELSE seeds

\* "Deduplicate overlapping windows by greedy pick": the sort and the loop
Deduplicate(ws, maxc) == Greedy(SortDesc(ws), <<>>, maxc)

\* find_highlights, of the parsed entries es and the probed duration dur
FindHighlights(es, dur, len, maxc) ==
    IF es = <<>> THEN Chop(0, <<>>, dur, len, maxc)
    ELSE Deduplicate(Candidates(ScoreAll(es), dur, len, maxc), maxc)

---------------------------------------------------------------------------
(* find_highlights as an operation: inputs drawn at Init, one call *)

MaxEntries == 2

MaxTargetLen == 2

\* "um" scores below 0.5 when it lasts a second, "Tip" always scores above
EntryTexts == {<<"u", "m">>, <<"T", "i", "p">>}

\* entries lasting one or two Steps that end by MaxSteps Steps
EntrySet == {[start |-> s * Step, end |-> (s + d) * Step, text |-> t] :
                 s \in 0..MaxSteps, d \in 1..2, t \in EntryTexts}

EntryInputs == {e \in EntrySet : e.end <= MaxSteps * Step}

\* transcripts of up to MaxEntries entries, in the chronological order in
\* which whisper yields its segments
EntryLists ==
    {es \in UNION {[1..n -> EntryInputs] : n \in 0..MaxEntries} :
        \A i \in 1..(Len(es) - 1) : es[i].start <= es[i + 1].start}

SrtIdle == segments = <<>> /\ srt_file = <<>> /\ parsed = <<>>

HlIdle == /\ entries = <<>> /\ vid_dur = 0 /\ target_len = 1 /\ max_clips = 0
          /\ windows = <<>> /\ picked = <<>>

NoEntry == [start |-> 0, end |-> 0, text |-> <<>>]

ScIdle == /\ entry = NoEntry /\ keyword = <<>> /\ where = [mode |-> "append", at |-> 0]
          /\ score0 = 0 /\ score1 = 0

NoFile == [exists |-> FALSE, content |-> <<>>]

NoInv == [started |-> {}, failed_at |-> 0, before |-> NoFile, clean |-> TRUE]

ProjIdle == /\ srt_exists = FALSE /\ ass_file = NoFile /\ clip_files = <<>>
            /\ manifest_json = NoFile /\ idx = 0 /\ manifest = <<>>
            /\ response = "none" /\ runs = 0 /\ inv = NoInv

HlInit ==
    /\ pc = "hl_call"
    /\ SrtIdle
    /\ ScIdle
    /\ ProjIdle
    /\ windows = <<>>
    /\ picked = <<>>
    /\ \/ /\ entries \in EntryLists
          /\ vid_dur \in {k * Step : k \in 0..(MaxSteps + 1)}
          /\ target_len \in 1..MaxTargetLen
          /\ max_clips \in 0..(MaxEntries + 1)
       \/ \* the documented fallback case
          /\ entries = <<>>
          /\ vid_dur = 47 * MsPerSec
          /\ target_len = 15
          /\ max_clips = 6

\* find_highlights(src_path, srt_path, target_len, max_clips)
FindHighlightsCall ==
    /\ pc = "hl_call"
    /\ entries' = ScoreAll(entries)
    /\ windows' = IF entries = <<>>
                  THEN Chop(0, <<>>, vid_dur, target_len, max_clips)
                  ELSE Candidates(entries', vid_dur, target_len, max_clips)
    /\ picked' = IF entries = <<>> THEN windows' ELSE Deduplicate(windows', max_clips)
    /\ pc' = "hl_done"
    /\ UNCHANGED <<vid_dur, target_len, max_clips>>
    /\ UNCHANGED <<srtVars, scVars, projVars>>

HlNext == FindHighlightsCall

SpecHighlights == HlInit /\ [][HlNext]_vars

---------------------------------------------------------------------------
(* Properties of find_highlights *)

LenMs == target_len * MsPerSec

\* a scored entry that seeds a window
IsSeed(e) == 2 * e.score >= ScoreScale

SeedIdx == {i \in 1..Len(entries) : IsSeed(entries[i])}

Midpoint2(e) == e.start + e.end

\* the candidate window seeded by entry i, a seed, on the highlight path
CandOf(i) == windows[Cardinality({j \in SeedIdx : j <= i})]

InterLen(a, b) == Max(0, Min(a.end, b.end) - Max(a.start, b.start))

\* C1: with a duration above 0, find_highlights returns at most max_clips
\* windows, and every one of them has 0 <= start < end <= duration.
C1_WindowsBounded ==
    (pc = "hl_done" /\ vid_dur > 0) =>
        /\ Len(picked) <= max_clips
        /\ \A k \in 1..Len(picked) :
               /\ 0 <= picked[k].start
               /\ picked[k].start < picked[k].end
               /\ picked[k].end <= vid_dur

\* C1 witness: on the highlight path more candidates than max_clips were
\* seeded, max_clips were returned, and one of them was cut at the duration.
C1_Witness ==
    /\ pc = "hl_done" /\ vid_dur > 0 /\ SeedIdx # {}
    /\ Len(windows) > max_clips /\ Len(picked) = max_clips /\ max_clips > 0
    /\ \E k \in 1..Len(picked) :
           picked[k].end = vid_dur /\ picked[k].end - picked[k].start < LenMs

\* C2: no two windows returned overlap by half of the shorter one or more,
\* and seed entries with one and the same midpoint leave one window: at
\* most one window with their bounds is returned, and it is the only window
\* returned when every seed has that midpoint and max_clips is at least 1.
C2_NoHalfOverlap ==
    pc = "hl_done" =>
        /\ \A j, k \in 1..Len(picked) :
               j # k => 2 * InterLen(picked[j], picked[k])
                          < Min(picked[j].end - picked[j].start,
                                picked[k].end - picked[k].start)
        /\ \A a, b \in SeedIdx :
               (a # b /\ Midpoint2(entries[a]) = Midpoint2(entries[b])) =>
                   /\ Cardinality({k \in 1..Len(picked) :
                          /\ picked[k].start = CandOf(a).start
                          /\ picked[k].end = CandOf(a).end}) <= 1
                   /\ ((\A c \in SeedIdx :
                            Midpoint2(entries[c]) = Midpoint2(entries[a]))
                         /\ max_clips >= 1) => Len(picked) = 1

\* C2 witness: two seed entries with one midpoint seeded two candidate
\* windows, and one window was returned.
C2_Witness ==
    /\ pc = "hl_done" /\ vid_dur > 0 /\ Len(windows) = 2 /\ Len(picked) = 1
    /\ \E a, b \in SeedIdx :
           a # b /\ Midpoint2(entries[a]) = Midpoint2(entries[b])

\* the number of windows of the sequential chop: ceil(duration / L), capped
ChopCount ==
    Min(max_clips, IF vid_dur <= 0 THEN 0 ELSE (vid_dur + LenMs - 1) \div LenMs)

\* the sequential chop as the specification words it, window k = 0, 1, ...
ExpectedChop ==
    [n \in 1..ChopCount |->
        [start |-> (n - 1) * LenMs,
         end   |-> Min(n * LenMs, vid_dur),
         score |-> ScoreScale \div 10]]

\* C3: without a seed entry (no entry, or no score of 0.5 or more) the
\* windows returned are exactly the sequential chop, in order; of no entry,
\* 47 s, 15 s and 6 clips they are [0,15), [15,30), [30,45), [45,47).
C3_FallbackChop ==
    (pc = "hl_done" /\ SeedIdx = {}) =>
        /\ picked = ExpectedChop
        /\ (entries = <<>> /\ vid_dur = 47 * MsPerSec /\ target_len = 15
              /\ max_clips = 6) =>
               [k \in 1..Len(picked) |-> <<picked[k].start, picked[k].end>>]
                 = << <<0, 15000>>, <<15000, 30000>>, <<30000, 45000>>,
                      <<45000, 47000>> >>

\* C3 witness: entries that all score below 0.5 went through the sort and
\* the greedy loop, and several windows came back, the last one cut.
C3_Witness ==
    /\ pc = "hl_done" /\ entries # <<>> /\ SeedIdx = {}
    /\ Len(picked) >= 3
    /\ picked[Len(picked)].end - picked[Len(picked)].start < LenMs

\* the window the specification's step 2 describes for midpoint*2 = m2:
\* centered; shifted left by the excess over the duration; clamped at 0
CenteredWindow(m2) ==
    LET left  == (m2 - LenMs) \div 2
        right == left + LenMs
    IN  IF right <= vid_dur THEN <<left, right>>
        ELSE IF vid_dur - LenMs >= 0 THEN <<vid_dur - LenMs, vid_dur>>
        ELSE <<0, Min(LenMs, vid_dur)>>

\* C9 as stated: every seed's candidate window is centered on its midpoint
\* unless its right edge exceeds the duration.
C9_CenteredOriginal ==
    (pc = "hl_done" /\ SeedIdx # {}) =>
        \A i \in SeedIdx :
            <<CandOf(i).start, CandOf(i).end>> = CenteredWindow(Midpoint2(entries[i]))

\* the window with the left edge held at 0 first
LeftClampedWindow(m2) ==
    LET left  == Max(0, (m2 - LenMs) \div 2)
        right == left + LenMs
    IN  IF right <= vid_dur THEN <<left, right>>
        ELSE IF vid_dur - LenMs >= 0 THEN <<vid_dur - LenMs, vid_dur>>
        ELSE <<0, Min(LenMs, vid_dur)>>

\* C9 amended: every seed's candidate window has width L and is centered on
\* the midpoint, or starts at 0 when the centered window would start below
\* 0; only if its right edge then exceeds the duration is it shifted left
\* by the excess, and clamped to [0, min(L, duration)] if that would go
\* below 0.
C9_SeedWindow ==
    (pc = "hl_done" /\ SeedIdx # {}) =>
        \A i \in SeedIdx :
            <<CandOf(i).start, CandOf(i).end>>
                = LeftClampedWindow(Midpoint2(entries[i]))

\* C9 witness: one seed's window was held at 0 on the left, another's was
\* shifted left from the duration, both keeping the width L.
C9_Witness ==
    /\ pc = "hl_done"
    /\ \E i, j \in SeedIdx :
           /\ Midpoint2(entries[i]) < LenMs
           /\ CandOf(i).start = 0 /\ CandOf(i).end = LenMs
           /\ Midpoint2(entries[j]) + LenMs > 2 * vid_dur
           /\ CandOf(j).end = vid_dur /\ CandOf(j).start = vid_dur - LenMs
           /\ CandOf(j).start > 0

---------------------------------------------------------------------------
(* The serializer and the parser as operations: segments drawn at Init,    *)
(* transcribe_to_srt writes the file, _parse_srt reads it back             *)

MaxSegs == 2

\* texts of the engine's segments: plain, with the leading space the engine
\* gives, empty, blank, and with line breaks inside
SegTexts == { <<"a">>, <<SP, "a">>, <<"a", SP, "b">>, <<>>, <<SP>>,
              <<"a", NL, "b">>, <<"a", NL, NL, "b">>, <<"a", CR, "b">> }

\* start and end of a segment, in units of 1/SubMs ms: whole and broken
\* milliseconds, below and above a minute and an hour
SegTimes == { <<0, UnitsPerSec + 1>>,
              <<59 * UnitsPerSec + (UnitsPerSec - 1), 61 * UnitsPerSec + 5 * SubMs>>,
              <<3599 * UnitsPerSec + 1, 3661 * UnitsPerSec + 3 * SubMs - 1>> }

SegSet == {[start |-> t[1], end |-> t[2], text |-> x] : t \in SegTimes, x \in SegTexts}

SrtInit ==
    /\ pc = "srt_write"
    /\ segments \in UNION {[1..n -> SegSet] : n \in 0..MaxSegs}
    /\ srt_file = <<>>
    /\ parsed = <<>>
    /\ HlIdle
    /\ ScIdle
    /\ ProjIdle

\* transcribe_to_srt(input_path, srt_out): the file written
TranscribeToSrt ==
    /\ pc = "srt_write"
    /\ srt_file' = SrtText(segments)
    /\ pc' = "srt_read"
    /\ UNCHANGED <<segments, parsed>>
    /\ UNCHANGED <<hlVars, scVars, projVars>>

\* _parse_srt(path) of the file written
ParseSrtCall ==
    /\ pc = "srt_read"
    /\ parsed' = ParseSrt(srt_file)
    /\ pc' = "srt_done"
    /\ UNCHANGED <<segments, srt_file>>
    /\ UNCHANGED <<hlVars, scVars, projVars>>

SrtNext == TranscribeToSrt \/ ParseSrtCall

SpecSrt == SrtInit /\ [][SrtNext]_vars

---------------------------------------------------------------------------
(* Properties of the round trip *)

Abs(x) == IF x < 0 THEN -x ELSE x

\* entry i of the parse is segment i: times within 1 ms, the text that of
\* the segment without its surrounding whitespace
SameEntry(i) ==
    /\ Abs(parsed[i].start * SubMs - segments[i].start) <= SubMs
    /\ Abs(parsed[i].end * SubMs - segments[i].end) <= SubMs
    /\ parsed[i].text = Strip(segments[i].text)

RoundTrips ==
    /\ Len(parsed) = Len(segments)
    /\ \A i \in 1..Len(parsed) : SameEntry(i)

\* a segment whose text, stripped, is one non-empty line
OneLine(seg) ==
    /\ Strip(seg.text) # <<>>
    /\ \A i \in 1..Len(seg.text) : seg.text[i] \notin {NL, CR}

\* C7 as stated: every sequence of segments comes back from the serializer
\* and the parser with the same count, order, times within 1 ms, and text.
C7_RoundTripOriginal == pc = "srt_done" => RoundTrips

\* C7 amended: every sequence of segments whose texts, stripped, are
\* non-empty and hold no line break comes back with the same count and
\* order, times within 1 ms, and the stripped text.
C7_RoundTrip ==
    (pc = "srt_done" /\ \A i \in 1..Len(segments) : OneLine(segments[i]))
        => RoundTrips

\* C7 witness: two one-line segments came back, one with a leading space
\* stripped, one starting off a whole millisecond after the first hour.
C7_Witness ==
    /\ pc = "srt_done" /\ Len(segments) = 2 /\ Len(parsed) = 2
    /\ \A i \in 1..2 : OneLine(segments[i])
    /\ \E i \in 1..2 : segments[i].text # parsed[i].text
    /\ \E i \in 1..2 : /\ segments[i].end > 3600 * UnitsPerSec
                       /\ parsed[i].end * SubMs # segments[i].end

---------------------------------------------------------------------------
(* The scorer as an operation: an entry, a keyword and the place where the *)
(* keyword is added are drawn at Init; the scoring loop scores the entry   *)
(* with and without the keyword                                            *)

MaxWords == 2

\* the pieces the texts are made of, joined by single spaces
TextPieces == { <<"u", "m">>, <<"T", "i", "p">>, <<"h", "o", "w", SP, "t", "o">> }

ScoreTexts == {Join(<<SP>>, ps) : ps \in UNION {[1..n -> TextPieces] : n \in 1..MaxWords}}

\* text with kw put in: after a space at the end, or as it is after the
\* first w characters
WithKeyword(text, kw, w) ==
    IF w.mode = "append" THEN text \o <<SP>> \o kw
    ELSE SubSeq(text, 1, w.at) \o kw \o SubSeq(text, w.at + 1, Len(text))

ScInit ==
    /\ pc = "score"
    /\ SrtIdle
    /\ HlIdle
    /\ ProjIdle
    /\ \E t \in ScoreTexts, d \in 1..MaxSteps :
           entry = [start |-> 0, end |-> d * Step, text |-> t]
    /\ \E k \in 1..Len(KEYWORDS) : keyword = KEYWORDS[k]
    /\ \/ where = [mode |-> "append", at |-> Len(entry.text)]
       \/ \E i \in 0..Len(entry.text) : where = [mode |-> "insert", at |-> i]
    /\ score0 = 0
    /\ score1 = 0

\* the scoring loop of find_highlights over the two entries
ScoreEntries ==
    /\ pc = "score"
    /\ score0' = Score(entry)
    /\ score1' = Score([entry EXCEPT !.text = WithKeyword(entry.text, keyword, where)])
    /\ pc' = "scored"
    /\ UNCHANGED <<entry, keyword, where>>
    /\ UNCHANGED <<srtVars, hlVars, projVars>>

ScNext == ScoreEntries

SpecScore == ScInit /\ [][ScNext]_vars

\* C8 as stated: adding one more occurrence of a keyword to the text of an
\* entry, wherever it is put, never gives a lower score.
C8_MonotoneOriginal == pc = "scored" => score1 >= score0

\* the keywords text holds, by number
Matches(text) == {k \in 1..Len(KEYWORDS) : Contains(Lower(text), KEYWORDS[k])}

\* C8 amended: adding one more occurrence of a keyword to the text of an
\* entry never gives a lower score when every keyword the text held is still
\* held afterwards, as it is whenever the occurrence is appended; only an
\* occurrence put inside the occurrence of another keyword can lower it.
C8_MonotoneKeepingMatches ==
    pc = "scored" =>
        /\ where.mode = "append" =>
               Matches(entry.text) \subseteq Matches(WithKeyword(entry.text, keyword, where))
        /\ Matches(entry.text) \subseteq Matches(WithKeyword(entry.text, keyword, where)) =>
               score1 >= score0

\* C8 witness: a keyword the text held already was put in front of it, and
\* the score rose by the density term alone.
C8_Witness ==
    /\ pc = "scored" /\ where.mode = "insert" /\ where.at = 0
    /\ Contains(Lower(entry.text), keyword)
    /\ score1 > score0 /\ score1 < score0 + ScoreScale

---------------------------------------------------------------------------
(* _srt_to_ass and the burn-in of the subtitle track *)

\* to_ass_time(t), t in ms: H:MM:SS.cc, the centiseconds truncated
ToAssTime(t) ==
    LET h  == t \div (3600 * MsPerSec)
        m  == (t % (3600 * MsPerSec)) \div (60 * MsPerSec)
        sec == (t % (60 * MsPerSec)) \div MsPerSec
        cs == ((t - (t \div MsPerSec) * MsPerSec) * 100) \div MsPerSec
    IN  FmtInt(h, 1) \o <<":">> \o FmtInt(m, 2) \o <<":">> \o FmtInt(sec, 2)
          \o <<".">> \o FmtInt(cs, 2)

\* text.replace("\n", " ").replace("{", r"\{").replace("}", r"\}")
RECURSIVE EscapeAss(_)
EscapeAss(text) ==
    IF text = <<>> THEN <<>>
    ELSE (CASE text[1] = NL  -> <<SP>>
            [] text[1] = "{" -> <<"\\", "{">>
            [] text[1] = "}" -> <<"\\", "}">>
            [] OTHER         -> <<text[1]>>)
           \o EscapeAss(Tail(text))

\* the Dialogue lines _srt_to_ass writes: start, end and text of each
SrtToAss(text) ==
    LET es == ParseSrt(text)
    IN  [i \in 1..Len(es) |-> [start |-> ToAssTime(es[i].start),
                               end   |-> ToAssTime(es[i].end),
                               text  |-> EscapeAss(es[i].text)]]

\* the time of a Dialogue line as the subtitle renderer reads it, in ms
AssTimeMs(ts) ==
    LET hms  == SplitOn(ts, ":")
        rest == SplitOn(hms[3], ".")
    IN  (ParseInt(hms[1]) * 3600 + ParseInt(hms[2]) * 60 + ParseInt(rest[1]))
          * MsPerSec + ParseInt(rest[2]) * 10

\* "-ss" str(max(0.0, clip.start)) and "-t" max(0.1, end - start)
TrimStart(clip) == Max(0, clip.start)

TrimDuration(clip) == Max(MsPerSec \div 10, clip.end - clip.start)

\* The timestamp the subtitles filter sees for the frame shown tau ms into
\* the clip.  "-ss" stands before "-i": the encoder seeks in the input and
\* counts the timestamps of what it decodes from 0, and the filter chain of
\* "-vf" reads those timestamps; the command has no "-copyts".
FilterTime(clip, tau) == tau

\* the Dialogue lines burned into the frame shown tau ms into the clip:
\* those whose time span holds the frame's timestamp
BurnedCaptions(clip, tau) ==
    {j \in 1..Len(ass_file.content) :
        /\ AssTimeMs(ass_file.content[j].start) <= FilterTime(clip, tau)
        /\ FilterTime(clip, tau) < AssTimeMs(ass_file.content[j].end)}

---------------------------------------------------------------------------
(* /api/process (process_video), render_clips_with_captions and           *)
(* /api/projects/{id}/clips (list_clips) on one project                    *)

MaxRuns == 2

MP4 == <<".", "m", "p", "4">>

\* f"clip_{idx:02d}.mp4"
ClipName(i) == <<"c", "l", "i", "p", "_">> \o FmtInt(i, 2) \o MP4

AssName == <<"c", "a", "p", "t", "i", "o", "n", "s", ".", "a", "s", "s">>

\* x.endswith(".mp4")
EndsWithMp4(name) ==
    Len(name) >= Len(MP4) /\ SubSeq(name, Len(name) - Len(MP4) + 1, Len(name)) = MP4

\* os.listdir(out_dir)
ListDir == DOMAIN clip_files \cup (IF ass_file.exists THEN {AssName} ELSE {})

\* list_clips(project_id): the names returned (sorted(), here as a set)
ListClips == {x \in ListDir : EndsWithMp4(x)}

\* the file the encoder writes at out_path, "-y" overwriting
PutFile(name, content) ==
    [x \in DOMAIN clip_files \cup {name} |->
        IF x = name THEN content ELSE clip_files[x]]

\* the transcripts of the project's source: segments as the engine gives
\* them, in units of 1/SubMs ms
Seg(a, b, t) == [start |-> a * Step * SubMs, end |-> b * Step * SubMs, text |-> t]

ProjSegments == { <<>>,
                  <<Seg(0, 2, <<SP, "u", "m">>), Seg(2, 3, <<SP, "T", "i", "p">>)>>,
                  <<Seg(0, 1, <<SP, "t", "i", "p">>), Seg(3, 4, <<SP, "{", "w", "h", "y", "}">>)>> }

Init ==
    /\ pc = "idle"
    /\ segments \in ProjSegments
    /\ vid_dur \in {0, 3 * Step, 5 * Step}
    /\ srt_file = <<>> /\ parsed = <<>>
    /\ entries = <<>> /\ target_len = 1 /\ max_clips = 0
    /\ windows = <<>> /\ picked = <<>>
    /\ ScIdle
    /\ ProjIdle

\* process_video up to the first render job: transcribe unless the
\* transcript is there, find_highlights, and render_clips_with_captions up
\* to its loop
ProcessVideo(len, maxc) ==
    /\ pc = "idle"
    /\ runs < MaxRuns
    /\ runs' = runs + 1
    /\ target_len' = len
    /\ max_clips' = maxc
    /\ srt_file' = IF srt_exists THEN srt_file ELSE SrtText(segments)
    /\ srt_exists' = TRUE
    /\ parsed' = ParseSrt(srt_file')
    /\ entries' = ScoreAll(parsed')
    /\ windows' = IF entries' = <<>> THEN Chop(0, <<>>, vid_dur, len, maxc)
                  ELSE Candidates(entries', vid_dur, len, maxc)
    /\ picked' = IF entries' = <<>> THEN windows' ELSE Deduplicate(windows', maxc)
    /\ ass_file' = [exists |-> TRUE, content |-> SrtToAss(srt_file')]
    /\ manifest' = <<>>
    /\ idx' = 1
    /\ response' = "none"
    /\ inv' = [inv EXCEPT !.started = {}, !.failed_at = 0, !.before = manifest_json]
    /\ pc' = "render"
    /\ UNCHANGED <<segments, vid_dur, clip_files, manifest_json>>
    /\ UNCHANGED scVars

\* run(cmd) starts the encoder on clip idx, which opens out_path
StartEncoder ==
    /\ pc = "render"
    /\ idx <= Len(picked)
    /\ clip_files' = PutFile(ClipName(idx),
                             [state |-> "partial", start |-> TrimStart(picked[idx]),
                              dur |-> TrimDuration(picked[idx])])
    /\ inv' = [inv EXCEPT !.started = @ \cup {idx}]
    /\ pc' = "encoding"
    /\ UNCHANGED <<segments, srt_file, parsed, hlVars, scVars, srt_exists, ass_file,
                   manifest_json, idx, manifest, response, runs>>

\* the encoder cannot be run: subprocess.run raises, and so does the handler
EncoderFailsToRun ==
    /\ pc = "render"
    /\ idx <= Len(picked)
    /\ inv' = [inv EXCEPT !.started = @ \cup {idx}, !.failed_at = idx, !.clean = FALSE]
    /\ response' = "error"
    /\ pc' = "idle"
    /\ UNCHANGED <<segments, srt_file, parsed, hlVars, scVars, srt_exists, ass_file,
                   clip_files, manifest_json, idx, manifest, runs>>

\* the encoder exits 0: run returns, the manifest entry is appended
EncoderExitsZero ==
    /\ pc = "encoding"
    /\ clip_files' = [clip_files EXCEPT ![ClipName(idx)].state = "complete"]
    /\ manifest' = Append(manifest, [file  |-> ClipName(idx),
                                     start |-> picked[idx].start,
                                     end   |-> picked[idx].end,
                                     score |-> picked[idx].score])
    /\ idx' = idx + 1
    /\ pc' = "render"
    /\ UNCHANGED <<segments, srt_file, parsed, hlVars, scVars, srt_exists, ass_file,
                   manifest_json, response, runs, inv>>

\* run without the check of the return code: the loop goes on
EncoderExitsNonZero_Ignored ==
    /\ pc = "encoding"
    /\ inv' = [inv EXCEPT !.failed_at = idx, !.clean = FALSE]
    /\ manifest' = Append(manifest, [file  |-> ClipName(idx),
                                     start |-> picked[idx].start,
                                     end   |-> picked[idx].end,
                                     score |-> picked[idx].score])
    /\ idx' = idx + 1
    /\ pc' = "render"
    /\ UNCHANGED <<segments, srt_file, parsed, hlVars, scVars, srt_exists, ass_file,
                   clip_files, manifest_json, response, runs>>

\* the encoder exits non-zero: run raises RuntimeError, which nothing catches
EncoderExitsNonZero ==
    /\ pc = "encoding"
    /\ inv' = [inv EXCEPT !.failed_at = idx, !.clean = FALSE]
    /\ response' = "error"
    /\ pc' = "idle"
    /\ UNCHANGED <<segments, srt_file, parsed, hlVars, scVars, srt_exists, ass_file,
                   clip_files, manifest_json, idx, manifest, runs>>

\* the invocation is cancelled while the encoder runs: the encoder is
\* stopped, and nothing removes what it wrote at out_path
CancelInvocation ==
    /\ pc = "encoding"
    /\ inv' = [inv EXCEPT !.clean = FALSE]
    /\ response' = "cancelled"
    /\ pc' = "idle"
    /\ UNCHANGED <<segments, srt_file, parsed, hlVars, scVars, srt_exists, ass_file,
                   clip_files, manifest_json, idx, manifest, runs>>

\* the loop is over: process_video saves manifest.json and returns
SaveManifest ==
    /\ pc = "render"
    /\ idx > Len(picked)
    /\ manifest_json' = [exists |-> TRUE, content |-> manifest]
    /\ response' = "ok"
    /\ pc' = "idle"
    /\ UNCHANGED <<segments, srt_file, parsed, hlVars, scVars, srt_exists, ass_file,
                   clip_files, idx, manifest, runs, inv>>

Next ==
    \/ \E len \in 1..MaxTargetLen, maxc \in 0..(MaxEntries + 1) : ProcessVideo(len, maxc)
    \/ StartEncoder
    \/ EncoderFailsToRun
    \/ EncoderExitsZero
    \/ EncoderExitsNonZero
    \/ CancelInvocation
    \/ SaveManifest

Spec == Init /\ [][Next]_vars

---------------------------------------------------------------------------
(* Properties of the render loop and of the project's files *)

\* the transcript entries that cover source time t
CoveringEntries(t) ==
    {j \in 1..Len(entries) : entries[j].start <= t /\ t < entries[j].end}

\* the playback times of the clip that are checked: every Step
ClipTimes(clip) == {k * Step : k \in 0..((clip.dur - 1) \div Step)}

\* C4: at every playback time tau of every rendered clip, the captions in
\* the frame are those of the transcript entries covering source time
\* start + tau (Dialogue line j is the caption of entry j).
C4_CaptionsOnSourceTimeline ==
    \A name \in DOMAIN clip_files :
        clip_files[name].state = "complete" =>
            \A tau \in ClipTimes(clip_files[name]) :
                BurnedCaptions(clip_files[name], tau)
                    = CoveringEntries(clip_files[name].start + tau)

\* C5: once the encoder has failed on clip i of a batch, no render job of a
\* later clip has been started, the invocation has ended in the error, and
\* manifest.json is what it was before the invocation.
C5_FailFast ==
    inv.failed_at # 0 =>
        /\ \A j \in inv.started : j <= inv.failed_at
        /\ pc = "idle" /\ response = "error"
        /\ manifest_json = inv.before

\* C5 witness: the encoder failed on the second of three clips, the first
\* one being rendered, and there is no manifest.json.
C5_Witness ==
    /\ inv.failed_at = 2 /\ Len(picked) = 3 /\ Len(manifest) = 1
    /\ inv.started = {1, 2}
    /\ ~manifest_json.exists

\* C6: after a cancellation no clip file under its final name is partly
\* written.
C6_NoPartialAfterCancel ==
    response = "cancelled" =>
        \A name \in DOMAIN clip_files : clip_files[name].state # "partial"

\* C10: after invocations that all succeeded, the clips list_clips returns
\* are the files of the manifest.json of the last one.
C10_ListingMatchesManifest ==
    (pc = "idle" /\ response = "ok" /\ inv.clean) =>
        ListClips = {manifest_json.content[i].file : i \in 1..Len(manifest_json.content)}

===========================================================================
